---- MODULE Spec2Model ----
(***************************************************************************)
(* Verification model of the pragati-backend real-time core.               *)
(*                                                                         *)
(* src/server.mjs holds two socket servers and the order controller.  This *)
(* module models the connection-id-keyed server (lines 37-436): the        *)
(* session registry connectedUsers, the membership table teamMembers, the  *)
(* transport's rooms (socket.join), the presence publisher and the four    *)
(* order lifecycle handlers.                                               *)
(*                                                                         *)
(* JavaScript strings are sequences of one-character strings, so that      *)
(* toLowerCase() and trim() are computed.  The value undefined is the      *)
(* one-element sequence Undefined, whose element is no character.          *)
(* Timestamps (new Date()) and console output are left out: no handler     *)
(* reads them back.  userIdentities is written and never read; it is left  *)
(* out as well.                                                            *)
(*                                                                         *)
(* No handler is wrapped in try/catch and the process installs no          *)
(* uncaughtException handler: a TypeError thrown inside a handler ends the *)
(* Node process.  The model records that in crashed; the in-memory         *)
(* registry is gone with the process.                                      *)
(*                                                                         *)
(* The order controller's updateOrderProgress (lines 867-945) is modelled  *)
(* over one stored order.  It runs inside try/catch and answers an         *)
(* exception with status 500.  A call is a store read (Order.findOne), a   *)
(* synchronous fold of the updates into the document it read, and a store  *)
(* write (order.save); SpecProgress runs calls one after the other,        *)
(* SpecRace interleaves the steps of two callers.                          *)
(*                                                                         *)
(* The user-id-keyed server (lines 442-780) keeps its presence tables in   *)
(* Maps keyed by the userId a client supplies; its register and disconnect *)
(* handlers and its presence publisher are modelled under SpecUid.         *)
(***************************************************************************)
EXTENDS Integers, Sequences, FiniteSets, TLC

\* ------------------------------------------------------------------ bounds
NumConns == 2

Conns == 1..NumConns

\* the quantity ordered of each item of the stored order
MaxQty == 2

\* the number of updateOrderProgress requests of a run
MaxCalls == 3

\* ----------------------------------------------------------------- strings
Undefined == <<"#undefined">>
NotAString == <<"#number">>
EmptyString == <<>>

Uppers == <<"A","B","C","D","E","F","G","H","I","J","K","L","M",
            "N","O","P","Q","R","S","T","U","V","W","X","Y","Z">>
Lowers == <<"a","b","c","d","e","f","g","h","i","j","k","l","m",
            "n","o","p","q","r","s","t","u","v","w","x","y","z">>

\* the lower-case letter of every upper-case letter
LowerOf == [ch \in {Uppers[i] : i \in 1..Len(Uppers)} |->
              Lowers[CHOOSE i \in 1..Len(Uppers) : Uppers[i] = ch]]

ToLowerChar(ch) == IF ch \in DOMAIN LowerOf THEN LowerOf[ch] ELSE ch

ToLowerCase(s) == [i \in 1..Len(s) |-> ToLowerChar(s[i])]

IsSpace(ch) == ch \in {" ", "\t", "\n"}

RECURSIVE TrimStart(_)
TrimStart(s) ==
  IF s # <<>> /\ IsSpace(Head(s)) THEN TrimStart(Tail(s)) ELSE s

RECURSIVE TrimEnd(_)
TrimEnd(s) ==
  IF s # <<>> /\ IsSpace(s[Len(s)]) THEN TrimEnd(SubSeq(s, 1, Len(s) - 1)) ELSE s

Trim(s) == TrimEnd(TrimStart(s))

\* x.toLowerCase().trim()
NormalizeNoTrim(s) == ToLowerCase(s)
Normalize(s) == Trim(ToLowerCase(s))

\* x?.toLowerCase().trim()
NormalizeOpt(s) == IF s = Undefined THEN Undefined ELSE Normalize(s)

\* JavaScript truthiness of a string-or-undefined value
Truthy(s) == s # Undefined /\ s # EmptyString

\* ------------------------------------------------------------- group names
S_dispatchers == <<"d","i","s","p","a","t","c","h","e","r","s">>
S_glass == <<"g","l","a","s","s">>
S_cap == <<"c","a","p">>
S_box == <<"b","o","x">>
S_pump == <<"p","u","m","p">>
S_unassigned == <<"u","n","a","s","s","i","g","n","e","d">>
S_caps == <<"c","a","p","s">>
S_boxes == <<"b","o","x","e","s">>
S_pumps == <<"p","u","m","p","s">>
S_constructor == <<"c","o","n","s","t","r","u","c","t","o","r">>
S_admin == <<"a","d","m","i","n">>
S_dispatcher == <<"d","i","s","p","a","t","c","h","e","r">>
S_u1 == <<"u","1">>
S_GlassSp == <<"G","l","a","s","s"," ">>
S_o1 == <<"o","1">>
S_o2 == <<"o","2">>
S_i1 == <<"i","1">>
S_i2 == <<"i","2">>
S_i9 == <<"i","9">>
S_SpBox == <<" ","B","o","x">>
S_u2 == <<"u","2">>
S_all_teams == <<"a","l","l","-","t","e","a","m","s">>

\* the four team keys, in the order of the literal ['glass','cap','box','pump']
TeamNames == <<S_glass, S_cap, S_box, S_pump>>
TeamKeys == {TeamNames[i] : i \in 1..Len(TeamNames)}

\* own keys of the teamMembers object
GroupKeys == {S_dispatchers} \cup TeamKeys

\* teamMembers is a plain object: a key it does not own is looked up on
\* Object.prototype, where these names are defined (as functions or objects)
ObjectPrototypeKeys == {S_constructor}

Digits == <<"1","2","3","4","5","6","7","8","9">>
\* socket.id of connection c
SocketId(c) == <<"s","k",Digits[c]>>

\* ------------------------------------------------------------------- state
VARIABLES
  connState,       \* per connection: "fresh" (not yet opened), "open", "dead"
                   \* (transport gone, no disconnect event yet), "closed"
  connectedUsers,  \* Map socket.id -> userInfo
  teamMembers,     \* { dispatchers, glass, cap, box, pump } -> Set of socket.id
  rooms,           \* the transport's rooms each socket has joined (socket.join)
  timers,          \* number of running setInterval sweep timers
  crashed,         \* the Node process has ended on an uncaught exception
  handled,         \* the event of the most recent step: its name, socket, argument
  outbox,          \* what the most recent step emitted, in order
  store,           \* the orders collection: the one order document it holds
  inflight,        \* per caller of updateOrderProgress: where its call stands,
                   \* its request body, the document it read and the one it holds
  reply,           \* the most recent response of updateOrderProgress
  applied,         \* per item: the sum of the qty_completed of the updates that
                   \* calls answered with success applied to it
  calls,           \* the number of requests received
  presence         \* connectedUsers of the user-id-keyed server: the Map
                   \* dispatchers and the Maps of teams, each the sequence of its
                   \* values in insertion order

\* the socket server's state and the order controller's
rvars == <<connState, connectedUsers, teamMembers, rooms, timers, crashed, handled, outbox>>

pvars == <<store, inflight, reply, applied, calls>>

uvars == <<presence>>

vars == <<rvars, pvars, uvars>>

NoUsers == [c \in {} |-> {}]

\* ---------------------------------------------------------------- payloads
\* the argument of 'register' / the handshake query; defined = FALSE is a call
\* with no argument
UserData(userId, role, team, teamType) ==
  [defined |-> TRUE, userId |-> userId, role |-> role, team |-> team, teamType |-> teamType]

NoUserData ==
  [defined |-> FALSE, userId |-> Undefined, role |-> Undefined, team |-> Undefined,
   teamType |-> Undefined]

Handled(name, socket, data) == [name |-> name, socket |-> socket, data |-> data]

\* ---------------------------------------------------------------- emitting
\* the sockets an emission to a room is written to: those that joined it, and
\* the socket itself for the room that carries its id
InRoom(rm, cs, c, room) ==
  \/ room \in rm[c]
  \/ cs[c] \in {"open", "dead"} /\ room = SocketId(c)

\* io.to(room).emit(event, payload)
EmitRoom(rm, cs, room, event, payload) ==
  [event |-> event, room |-> room,
   to |-> {c \in Conns : InRoom(rm, cs, c, room)}, payload |-> payload]

\* socket.emit(event, payload)
EmitSocket(c, event, payload) ==
  [event |-> event, room |-> SocketId(c), to |-> {c}, payload |-> payload]

\* ---------------------------------------------------------------- registry
removeUserFromTeamsKeepBox(tm, socketId) ==
  [g \in GroupKeys |-> IF g = S_box THEN tm[g] ELSE tm[g] \ {socketId}]

removeUserFromTeams(tm, socketId) ==
  [g \in GroupKeys |-> tm[g] \ {socketId}]

\* teamMembers[name].add(socket.id); socket.join(name), guarded by
\* if (teamMembers[name]); st = [tm, joined, threw]
AddByName(st, c, name) ==
  LET n == Normalize(name) IN
  IF st.threw THEN st
  ELSE IF n \in GroupKeys
    THEN [tm |-> [st.tm EXCEPT ![n] = @ \cup {c}],
          joined |-> st.joined \cup {n}, threw |-> FALSE]
  ELSE IF n \in ObjectPrototypeKeys
    THEN [st EXCEPT !.threw = TRUE]   \* .add is not a function
  ELSE st

addUserToTeams(tm, joined, c, userInfo) ==
  LET s0 == [tm |-> tm, joined |-> joined, threw |-> FALSE]
      s1 == IF userInfo.role = S_admin \/ userInfo.role = S_dispatcher
            THEN [s0 EXCEPT !.tm[S_dispatchers] = @ \cup {c},
                            !.joined = @ \cup {S_dispatchers}]
            ELSE s0
      s2 == IF Truthy(userInfo.team) THEN AddByName(s1, c, userInfo.team) ELSE s1
      s3 == IF Truthy(userInfo.teamType) /\ userInfo.teamType # userInfo.team
            THEN AddByName(s2, c, userInfo.teamType) ELSE s2
  IN s3

\* user?.userId || socketId
UserIdOf(cu, socketId) ==
  IF socketId \in DOMAIN cu /\ Truthy(cu[socketId].userId)
  THEN cu[socketId].userId ELSE SocketId(socketId)

\* The lists of a presence snapshot.  An entry keeps the socket id it was mapped
\* from (sid), so that two members with one userId stay two entries, as in the
\* array; the order of the array (insertion order of the Set) is left out.
DispatchersList(tm, cu) ==
  {[userId |-> UserIdOf(cu, c), sid |-> c] : c \in tm[S_dispatchers]}

TeamUsers(tm, cu, teamName) ==
  {[userId |-> UserIdOf(cu, c), team |-> teamName, sid |-> c] : c \in tm[teamName]}

broadcastConnectedUsers(tm, cu, rm, cs) ==
  LET toDispatchers ==
        EmitRoom(rm, cs, S_dispatchers, "connected-users",
          [dispatchers |-> DispatchersList(tm, cu),
           teamMembers |-> UNION {TeamUsers(tm, cu, t) : t \in TeamKeys},
           teams |-> [t \in TeamKeys |-> TeamUsers(tm, cu, t)]])
      populated == SelectSeq(TeamNames, LAMBDA t : tm[t] # {})
  IN <<toDispatchers>> \o
     [i \in 1..Len(populated) |->
        EmitRoom(rm, cs, populated[i], "connected-users",
          [teamMembers |-> TeamUsers(tm, cu, populated[i]),
           dispatchers |-> DispatchersList(tm, cu)])]

\* An exception leaves the handler uncaught: the process ends, and with it the
\* registry, the table, every connection and every timer.  emitted is what the
\* handler had emitted before it threw.
Crash(emitted) ==
  /\ crashed' = TRUE
  /\ connectedUsers' = NoUsers
  /\ teamMembers' = [g \in GroupKeys |-> {}]
  /\ rooms' = [c \in Conns |-> {}]
  /\ connState' = [c \in Conns |-> IF connState[c] = "fresh" THEN "fresh" ELSE "closed"]
  /\ timers' = 0
  /\ outbox' = emitted

\* the transport hands out a new socket id for every connection
NextSocket == CHOOSE c \in Conns : connState[c] = "fresh" /\ \A d \in Conns : connState[d] = "fresh" => c <= d

UserInfo(c, userId, u) ==
  [socketId |-> c, userId |-> userId, role |-> u.role,
   team |-> NormalizeOpt(u.team), teamType |-> NormalizeOpt(u.teamType)]

SetUserNever(cu, c, info) == cu

\* connectedUsers.set(socket.id, userInfo)
SetUser(cu, c, info) ==
  [x \in DOMAIN cu \cup {c} |-> IF x = c THEN info ELSE cu[x]]

DeleteUsersNone(cu, gone) == cu

DeleteUsers(cu, gone) == [x \in DOMAIN cu \ gone |-> cu[x]]

\* io.on('connection'): the handshake query q, the handlers and one sweep timer
Connect(c, q) ==
  /\ ~crashed
  /\ connState[c] = "fresh"
  /\ handled' = Handled("connection", c, q)
  /\ UNCHANGED <<pvars, uvars>>
  /\ LET cs1 == [connState EXCEPT ![c] = "open"] IN
     IF Truthy(q.userId) /\ Truthy(q.role)
     THEN LET info == UserInfo(c, q.userId, q)
              cu1 == SetUser(connectedUsers, c, info)
              res == addUserToTeams(teamMembers, rooms[c], c, info)
              rm1 == [rooms EXCEPT ![c] = res.joined]
          IN IF res.threw
             THEN Crash(<<>>)
             ELSE /\ connState' = cs1
                  /\ connectedUsers' = cu1
                  /\ teamMembers' = res.tm
                  /\ rooms' = rm1
                  /\ timers' = timers + 1
                  /\ outbox' = broadcastConnectedUsers(res.tm, cu1, rm1, cs1)
                  /\ UNCHANGED crashed
     ELSE /\ connState' = cs1
          /\ timers' = timers + 1
          /\ outbox' = <<>>
          /\ UNCHANGED <<connectedUsers, teamMembers, rooms, crashed>>

\* socket.on('register')
Register(c, u) ==
  /\ ~crashed
  /\ connState[c] = "open"
  /\ handled' = Handled("register", c, u)
  /\ UNCHANGED <<pvars, uvars>>
  /\ IF ~u.defined
     THEN Crash(<<>>)       \* destructuring undefined
     ELSE LET uniqueId == IF Truthy(u.userId) THEN u.userId ELSE SocketId(c)
              info == UserInfo(c, uniqueId, u)
              tm1 == removeUserFromTeams(teamMembers, c)
              cu1 == SetUser(connectedUsers, c, info)
              res == addUserToTeams(tm1, rooms[c], c, info)
              rm1 == [rooms EXCEPT ![c] = res.joined]
          IN IF res.threw
             THEN Crash(<<>>)
             ELSE /\ connectedUsers' = cu1
                  /\ teamMembers' = res.tm
                  /\ rooms' = rm1
                  /\ outbox' =
                       <<EmitSocket(c, "registered",
                           [success |-> TRUE,
                            user |-> [socketId |-> c, role |-> u.role,
                                      team |-> NormalizeOpt(u.team),
                                      teamType |-> NormalizeOpt(u.teamType)]])>>
                       \o broadcastConnectedUsers(res.tm, cu1, rm1, connState)
                  /\ UNCHANGED <<connState, timers, crashed>>

\* socket.on('disconnect'); the transport has taken the socket out of its
\* rooms before the listener runs
Disconnect(c) ==
  /\ ~crashed
  /\ connState[c] \in {"open", "dead"}
  /\ handled' = Handled("disconnect", c, NoUserData)
  /\ UNCHANGED <<pvars, uvars>>
  /\ LET cs1 == [connState EXCEPT ![c] = "closed"]
         rm1 == [rooms EXCEPT ![c] = {}]
         tm1 == removeUserFromTeams(teamMembers, c)
         cu1 == DeleteUsers(connectedUsers, {c})
     IN /\ connState' = cs1
        /\ rooms' = rm1
        /\ teamMembers' = tm1
        /\ connectedUsers' = cu1
        /\ outbox' = broadcastConnectedUsers(tm1, cu1, rm1, cs1)
        /\ UNCHANGED <<timers, crashed>>

\* the transport of an open connection goes away and no disconnect event has
\* been delivered yet: io.sockets.sockets.get(id) finds no live socket
TransportDies(c) ==
  /\ ~crashed
  /\ connState[c] = "open"
  /\ handled' = Handled("transport-dies", c, NoUserData)
  /\ UNCHANGED <<pvars, uvars>>
  /\ connState' = [connState EXCEPT ![c] = "dead"]
  /\ outbox' = <<>>
  /\ UNCHANGED <<connectedUsers, teamMembers, rooms, timers, crashed>>

StaleSessionsNone(cu, cs) == {}

\* the registered sessions for which !socket || socket.disconnected
StaleSessions(cu, cs) == {c \in DOMAIN cu : cs[c] # "open"}

\* the setInterval callback
SweepStale ==
  /\ ~crashed
  /\ timers > 0
  /\ handled' = Handled("sweep", 0, NoUserData)
  /\ UNCHANGED <<pvars, uvars>>
  /\ LET stale == StaleSessions(connectedUsers, connState)
         cu1 == DeleteUsers(connectedUsers, stale)
         tm1 == [g \in GroupKeys |-> teamMembers[g] \ stale]
     IN /\ connectedUsers' = cu1
        /\ teamMembers' = tm1
        /\ outbox' = broadcastConnectedUsers(tm1, cu1, rooms, connState)
        /\ UNCHANGED <<connState, rooms, timers, crashed>>

\* ------------------------------------------------------------------ router
\* The argument of an order lifecycle event.  defined = FALSE is the value
\* undefined.  A section of order_details is the number of items of its array
\* (an absent section has none); _id is whether the order carries an id.
Details(glass, caps, boxes, pumps) ==
  [defined |-> TRUE, glass |-> glass, caps |-> caps, boxes |-> boxes, pumps |-> pumps]

NoDetails == [defined |-> FALSE, glass |-> 0, caps |-> 0, boxes |-> 0, pumps |-> 0]

Order(hasId, details) == [defined |-> TRUE, _id |-> hasId, order_details |-> details]

NoOrder == [defined |-> FALSE, _id |-> FALSE, order_details |-> NoDetails]

TeamTypes(items) == [defined |-> TRUE, items |-> items]

NoTeamTypes == [defined |-> FALSE, items |-> <<>>]

Data(order, teamTypes) == [defined |-> TRUE, order |-> order, teamTypes |-> teamTypes]

NoData == [defined |-> FALSE, order |-> NoOrder, teamTypes |-> NoTeamTypes]

\* a value that has toLowerCase()
IsString(v) == v # NotAString /\ v # Undefined

\* connectedUsers.get(socket.id)
UserOf(cu, c) == IF c \in DOMAIN cu THEN cu[c] ELSE Undefined

\* teamTypes || []
TeamTypesOrEmpty(d) == IF d.teamTypes.defined THEN d.teamTypes.items ELSE <<>>

SectionTeamsBySectionName(details) ==
  (IF details.glass > 0 THEN <<S_glass>> ELSE <<>>) \o
  (IF details.caps > 0 THEN <<S_caps>> ELSE <<>>) \o
  (IF details.boxes > 0 THEN <<S_boxes>> ELSE <<>>) \o
  (IF details.pumps > 0 THEN <<S_pumps>> ELSE <<>>)

\* the four pushes: a team for every section that has an item
SectionTeams(details) ==
  (IF details.glass > 0 THEN <<S_glass>> ELSE <<>>) \o
  (IF details.caps > 0 THEN <<S_cap>> ELSE <<>>) \o
  (IF details.boxes > 0 THEN <<S_box>> ELSE <<>>) \o
  (IF details.pumps > 0 THEN <<S_pump>> ELSE <<>>)

GivenOrSectionTeamsSectionsOnly(d) == SectionTeams(d.order.order_details)

\* teamTypes when it has entries, else the teams of the order's sections
GivenOrSectionTeams(d) ==
  IF Len(TeamTypesOrEmpty(d)) # 0
  THEN TeamTypesOrEmpty(d)
  ELSE SectionTeams(d.order.order_details)

\* create-order: the target teams before normalisation (lines 176-187)
CreateTargetTeamsNoFallback(d) == GivenOrSectionTeams(d)

CreateTargetTeams(d) ==
  IF Len(GivenOrSectionTeams(d)) = 0 THEN <<S_unassigned>> ELSE GivenOrSectionTeams(d)

\* io.to(team).emit(event, payload) for every team of a list, in order
EmitEach(rm, cs, teams, event, payload) ==
  [i \in 1..Len(teams) |-> EmitRoom(rm, cs, teams[i], event, payload)]

\* "Always broadcast to dispatchers": io.to('dispatchers').emit(event, payload)
EmitDispatchersNever(rm, cs, event, payload) == <<>>

EmitDispatchers(rm, cs, event, payload) ==
  <<EmitRoom(rm, cs, S_dispatchers, event, payload)>>

\* !order || !order._id
DeleteOrderInvalidNoId(d) == ~d.order.defined

DeleteOrderInvalid(d) == ~d.order.defined \/ ~d.order._id

\* the handlers below change nothing but what they emit
Emits(emitted) ==
  /\ outbox' = emitted
  /\ UNCHANGED <<connState, connectedUsers, teamMembers, rooms, timers, crashed>>

\* socket.on('create-order')
CreateOrder(c, d) ==
  /\ ~crashed
  /\ connState[c] = "open"
  /\ handled' = Handled("create-order", c, d)
  /\ UNCHANGED <<pvars, uvars>>
  /\ IF ~d.defined
     THEN Crash(<<>>)       \* destructuring undefined
     ELSE IF ~d.order.defined
     THEN Emits(<<EmitSocket(c, "order-create-error", [error |-> "Invalid order data"])>>)
     ELSE LET targetTeams == CreateTargetTeams(d) IN
          IF \E i \in 1..Len(targetTeams) : ~IsString(targetTeams[i])
          THEN Crash(<<>>)  \* team.toLowerCase is not a function, inside map
          ELSE LET normalizedTeams == [i \in 1..Len(targetTeams) |-> Normalize(targetTeams[i])]
                   metaInfo == [createdBy |-> UserOf(connectedUsers, c),
                                targetTeams |-> normalizedTeams]
                   payload == [order |-> d.order, _meta |-> metaInfo]
               IN Emits(
                    EmitEach(rooms, connState, normalizedTeams, "new-order", payload)
                    \o EmitDispatchers(rooms, connState, "new-order", payload)
                    \o <<EmitSocket(c, "order-create-confirmed",
                           [orderId |-> d.order._id, status |-> "delivered",
                            targetTeams |-> normalizedTeams])>>)

\* socket.on('order-update')
OrderUpdate(c, d) ==
  /\ ~crashed
  /\ connState[c] = "open"
  /\ handled' = Handled("order-update", c, d)
  /\ UNCHANGED <<pvars, uvars>>
  /\ IF ~d.defined \/ ~d.order.defined
     THEN Crash(<<>>)       \* destructuring undefined, or order.order_number
     ELSE LET targetTeams == SectionTeams(d.order.order_details)
              metaInfo == [updatedBy |-> UserOf(connectedUsers, c),
                           targetTeams |-> targetTeams]
              payload == [order |-> d.order, _meta |-> metaInfo]
          IN Emits(
               EmitEach(rooms, connState, targetTeams, "order-updated", payload)
               \o EmitDispatchers(rooms, connState, "order-updated", payload)
               \o <<EmitSocket(c, "order-update-confirmed",
                      [orderId |-> d.order._id, status |-> "delivered"])>>)

\* socket.on('edit-order')
EditOrder(c, d) ==
  /\ ~crashed
  /\ connState[c] = "open"
  /\ handled' = Handled("edit-order", c, d)
  /\ UNCHANGED <<pvars, uvars>>
  /\ IF ~d.defined \/ ~d.order.defined
     THEN Crash(<<>>)       \* destructuring undefined, or order.order_number
     ELSE LET targetTeams == GivenOrSectionTeams(d) IN
          Emits(
            EmitEach(rooms, connState, targetTeams, "order-edited", d.order)
            \o EmitDispatchers(rooms, connState, "order-edited", d.order))

\* socket.on('delete-order')
DeleteOrder(c, d) ==
  /\ ~crashed
  /\ connState[c] = "open"
  /\ handled' = Handled("delete-order", c, d)
  /\ UNCHANGED <<pvars, uvars>>
  /\ IF ~d.defined
     THEN Crash(<<>>)       \* destructuring undefined
     ELSE IF DeleteOrderInvalid(d)
     THEN Emits(<<EmitSocket(c, "order-delete-error", [error |-> "Invalid order data"])>>)
     ELSE LET normalizedTeams == GivenOrSectionTeams(d)
              metaInfo == [deletedBy |-> UserOf(connectedUsers, c),
                           targetTeams |-> normalizedTeams]
              payload == [order |-> d.order, _meta |-> metaInfo]
              \* the entries before the first one that is no string
              ok == IF \E i \in 1..Len(normalizedTeams) : ~IsString(normalizedTeams[i])
                    THEN (CHOOSE i \in 1..Len(normalizedTeams) :
                            /\ ~IsString(normalizedTeams[i])
                            /\ \A j \in 1..(i - 1) : IsString(normalizedTeams[j])) - 1
                    ELSE Len(normalizedTeams)
              roomNames == [i \in 1..ok |-> Normalize(normalizedTeams[i])]
              toTeams == EmitEach(rooms, connState, roomNames, "order-deleted", payload)
          IN IF ok < Len(normalizedTeams)
             THEN Crash(toTeams)   \* team.toLowerCase is not a function, inside forEach
             ELSE Emits(
                    toTeams
                    \o EmitDispatchers(rooms, connState, "order-deleted", payload)
                    \o <<EmitSocket(c, "order-delete-confirmed",
                           [orderId |-> d.order._id, status |-> "deleted"])>>)

\* ---------------------------------------------------------- order progress
\* A value of qty_completed as the JSON body carries it: a number, or the
\* decimal string of a number n >= 0.
Num(n) == [str |-> FALSE, n |-> n]

Str(n) == [str |-> TRUE, n |-> n]

\* the number a value converts to, in a comparison and where the schema
\* declares the path a Number
ToNumber(v) == v.n

\* the power of ten that shifts a number past the digits of n >= 0
DecimalShift(n) == IF n < 10 THEN 10 ELSE IF n < 100 THEN 100 ELSE 1000

\* total += v, stored in a path the schema declares a Number: with a string
\* operand += concatenates the decimal texts
Plus(total, v) ==
  IF v.str
  THEN IF total < 0 THEN total * DecimalShift(v.n) - v.n
                    ELSE total * DecimalShift(v.n) + v.n
  ELSE total + v.n

Tracking(total, entries, status) ==
  [defined |-> TRUE, total_completed_qty |-> total, completed_entries |-> entries,
   status |-> status]

\* an item without team_tracking; its status reads undefined
NoTracking ==
  [defined |-> FALSE, total_completed_qty |-> 0, completed_entries |-> <<>>,
   status |-> "undefined"]

\* the defaults the schema gives the paths of team_tracking
DefaultTracking == Tracking(0, <<>>, "Pending")

Item(id, quantity, tracking) ==
  [_id |-> id, quantity |-> quantity, team_tracking |-> tracking]

ValidTeamTypes == <<S_glass, S_caps, S_boxes, S_pumps>>

Sections == {ValidTeamTypes[i] : i \in 1..Len(ValidTeamTypes)}

OrderDoc(order_number, order_status, order_details) ==
  [defined |-> TRUE, order_number |-> order_number, order_status |-> order_status,
   order_details |-> order_details]

\* null
NoOrderDoc ==
  [defined |-> FALSE, order_number |-> Undefined, order_status |-> "undefined",
   order_details |-> [s \in Sections |-> <<>>]]

\* Order.findOne({ order_number })
findOne(st, order_number) ==
  IF st.defined /\ st.order_number = order_number THEN st ELSE NoOrderDoc

\* req.body
Update(item_id, qty_completed) == [item_id |-> item_id, qty_completed |-> qty_completed]

Updates(items) == [defined |-> TRUE, array |-> TRUE, items |-> items]

NoUpdates == [defined |-> FALSE, array |-> FALSE, items |-> <<>>]

NotAnArray == [defined |-> TRUE, array |-> FALSE, items |-> <<>>]

Body(order_number, team_type, updates) ==
  [order_number |-> order_number, team_type |-> team_type, updates |-> updates]

NoBody == Body(Undefined, Undefined, NoUpdates)

Response(code, body, before, order) ==
  [code |-> code, body |-> body, before |-> before, order |-> order]

\* !order_number || !team_type || !updates || !Array.isArray(updates)
BadRequest(b) ==
  \/ ~Truthy(b.order_number)
  \/ ~Truthy(b.team_type)
  \/ ~b.updates.defined
  \/ ~b.updates.array

\* validTeamTypes.includes(team_type)
ValidTeamType(team_type) == \E i \in 1..Len(ValidTeamTypes) : ValidTeamTypes[i] = team_type

\* teamItems.find(item => item._id.toString() === update.item_id): the index
\* of the first such item, 0 when there is none
IndexOf(items, item_id) ==
  IF \E i \in 1..Len(items) : items[i]._id = item_id
  THEN CHOOSE i \in 1..Len(items) :
         /\ items[i]._id = item_id
         /\ \A j \in 1..(i - 1) : items[j]._id # item_id
  ELSE 0

\* itemToUpdate.quantity - (itemToUpdate.team_tracking?.total_completed_qty || 0)
MaxAllowedQty(item) ==
  item.quantity -
    (IF item.team_tracking.defined THEN item.team_tracking.total_completed_qty ELSE 0)

ExceededNever(qty_completed, maxAllowedQty) == FALSE

\* update.qty_completed > maxAllowedQty
Exceeded(qty_completed, maxAllowedQty) == ToNumber(qty_completed) > maxAllowedQty

StatusOfAbove(total, quantity) == IF total > quantity THEN "Completed" ELSE "Pending"

\* total >= quantity ? 'Completed' : 'Pending'
StatusOf(total, quantity) == IF total >= quantity THEN "Completed" ELSE "Pending"

\* the team_tracking of an item after an accepted update
Tracked(item, qty_completed) ==
  IF ~item.team_tracking.defined
  THEN Tracking(ToNumber(qty_completed), <<ToNumber(qty_completed)>>,
                StatusOf(ToNumber(qty_completed), item.quantity))
  ELSE LET total == Plus(item.team_tracking.total_completed_qty, qty_completed) IN
       Tracking(total,
                Append(item.team_tracking.completed_entries, ToNumber(qty_completed)),
                StatusOf(total, item.quantity))

ApplyUpdateUnknownThrows(st, update) ==
  LET i == IndexOf(st.items, update.item_id) IN
  IF i = 0 THEN [st EXCEPT !.threw = TRUE]
  ELSE IF Exceeded(update.qty_completed, MaxAllowedQty(st.items[i]))
    THEN [st EXCEPT !.threw = TRUE]
  ELSE [st EXCEPT !.items[i].team_tracking = Tracked(st.items[i], update.qty_completed)]

\* the callback of updates.forEach; st = [items, threw]
ApplyUpdate(st, update) ==
  LET i == IndexOf(st.items, update.item_id) IN
  IF i = 0 THEN st
  ELSE IF Exceeded(update.qty_completed, MaxAllowedQty(st.items[i]))
    THEN [st EXCEPT !.threw = TRUE]
  ELSE [st EXCEPT !.items[i].team_tracking = Tracked(st.items[i], update.qty_completed)]

RECURSIVE ForEach(_, _, _)
ForEach(st, updates, i) ==
  IF i > Len(updates) \/ st.threw THEN st
  ELSE ForEach(ApplyUpdate(st, updates[i]), updates, i + 1)

\* every item of every section is Completed or has no status
isOrderCompleted(order) ==
  \A s \in Sections : \A i \in 1..Len(order.order_details[s]) :
    LET t == order.order_details[s][i].team_tracking IN
    t.status = "Completed" \/ ~t.defined

FoldedOnSuccessOnly(order, b) ==
  LET res == ForEach([items |-> order.order_details[b.team_type], threw |-> FALSE],
                     b.updates.items, 1)
      folded == [order EXCEPT !.order_details[b.team_type] = res.items]
  IN [order |-> IF res.threw THEN order
                ELSE IF isOrderCompleted(folded)
                THEN [folded EXCEPT !.order_status = "Completed"]
                ELSE folded,
      threw |-> res.threw]

\* lines 886-933 on the document a call has read: the document it holds
\* afterwards, and whether the fold threw
Folded(order, b) ==
  LET res == ForEach([items |-> order.order_details[b.team_type], threw |-> FALSE],
                     b.updates.items, 1)
      folded == [order EXCEPT !.order_details[b.team_type] = res.items]
  IN [order |-> IF ~res.threw /\ isOrderCompleted(folded)
                THEN [folded EXCEPT !.order_status = "Completed"]
                ELSE folded,
      threw |-> res.threw]

SavedDetailsOnly(st, order) == [order EXCEPT !.order_status = st.order_status]

\* order.save(): the document the call holds becomes the stored one
Saved(st, order) == order

RECURSIVE QtyFor(_, _, _)
\* the sum of the qty_completed of the updates from the i-th on that name item_id
QtyFor(updates, item_id, i) ==
  IF i > Len(updates) THEN 0
  ELSE (IF updates[i].item_id = item_id THEN ToNumber(updates[i].qty_completed) ELSE 0)
       + QtyFor(updates, item_id, i + 1)

\* the ids of the items of a document
ItemIds(order) ==
  UNION {{order.order_details[s][i]._id : i \in 1..Len(order.order_details[s])} : s \in Sections}

\* applied, after a call with body b that read order is answered with success
Applied(ap, order, b) ==
  [id \in DOMAIN ap |->
     ap[id] + (IF IndexOf(order.order_details[b.team_type], id) # 0
               THEN QtyFor(b.updates.items, id, 1) ELSE 0)]

Idle == [pc |-> "idle", body |-> NoBody, read |-> NoOrderDoc, order |-> NoOrderDoc]

Callers == {"a", "b"}

\* res.status(code).json(...)
Respond(code, b, before, order) == reply' = Response(code, b, before, order)

\* updateOrderProgress, run from the request to the response with no other
\* call in between
ApplyProgress(b) ==
  /\ calls < MaxCalls
  /\ calls' = calls + 1
  /\ UNCHANGED <<rvars, uvars, inflight>>
  /\ LET order == findOne(store, b.order_number) IN
     IF BadRequest(b)
     THEN Respond(400, b, store, store) /\ UNCHANGED <<store, applied>>
     ELSE IF ~order.defined
     THEN Respond(404, b, store, store) /\ UNCHANGED <<store, applied>>
     ELSE IF ~ValidTeamType(b.team_type)
     THEN Respond(400, b, store, store) /\ UNCHANGED <<store, applied>>
     ELSE LET f == Folded(order, b) IN
          IF f.threw
          THEN Respond(500, b, store, f.order) /\ UNCHANGED <<store, applied>>
          ELSE /\ store' = Saved(store, f.order)
               /\ applied' = Applied(applied, order, b)
               /\ Respond(200, b, store, f.order)

\* the request arrives, is validated, and Order.findOne reads the store
Fetch(p, b) ==
  /\ inflight[p].pc = "idle"
  /\ calls < MaxCalls
  /\ calls' = calls + 1
  /\ UNCHANGED <<rvars, uvars, store, applied>>
  /\ LET order == findOne(store, b.order_number) IN
     IF BadRequest(b)
     THEN Respond(400, b, store, store) /\ UNCHANGED inflight
     ELSE IF ~order.defined
     THEN Respond(404, b, store, store) /\ UNCHANGED inflight
     ELSE /\ inflight' = [inflight EXCEPT ![p] =
                            [pc |-> "fetched", body |-> b, read |-> order, order |-> order]]
          /\ UNCHANGED reply

\* the continuation of findOne up to the call of order.save()
Fold(p) ==
  /\ inflight[p].pc = "fetched"
  /\ UNCHANGED <<rvars, uvars, store, applied, calls>>
  /\ LET b == inflight[p].body
         order == inflight[p].read
     IN IF ~ValidTeamType(b.team_type)
        THEN /\ Respond(400, b, order, order)
             /\ inflight' = [inflight EXCEPT ![p] = Idle]
        ELSE LET f == Folded(order, b) IN
             IF f.threw
             THEN /\ Respond(500, b, order, f.order)
                  /\ inflight' = [inflight EXCEPT ![p] = Idle]
             ELSE /\ inflight' = [inflight EXCEPT ![p].pc = "folded", ![p].order = f.order]
                  /\ UNCHANGED reply

\* order.save() writes the store and the call answers
Save(p) ==
  /\ inflight[p].pc = "folded"
  /\ UNCHANGED <<rvars, uvars, calls>>
  /\ store' = Saved(store, inflight[p].order)
  /\ applied' = Applied(applied, inflight[p].read, inflight[p].body)
  /\ Respond(200, inflight[p].body, inflight[p].read, inflight[p].order)
  /\ inflight' = [inflight EXCEPT ![p] = Idle]

\* -------------------------------------------------- the user-id-keyed server
\* the literal ['glass', 'caps', 'boxes', 'pumps']: the keys teams starts with
\* and the rooms an admin joins
TeamRooms == <<S_glass, S_caps, S_boxes, S_pumps>>

NoPresence ==
  [dispatchers |-> <<>>,
   teams |-> [i \in 1..Len(TeamRooms) |-> [name |-> TeamRooms[i], users |-> <<>>]]]

UidUserInfo(c, u) == [socketId |-> c, userId |-> u.userId, role |-> u.role, team |-> u.team]

\* map.set(userId, userInfo): the value of an existing key is replaced where
\* it stands, a new key goes last
MapSet(m, info) ==
  IF \E i \in 1..Len(m) : m[i].userId = info.userId
  THEN [i \in 1..Len(m) |-> IF m[i].userId = info.userId THEN info ELSE m[i]]
  ELSE Append(m, info)

\* the loop over map.entries() that deletes the first entry whose socketId is
\* the socket's and breaks
DeleteFirstOf(m, socketId) ==
  IF \E i \in 1..Len(m) : m[i].socketId = socketId
  THEN LET k == CHOOSE i \in 1..Len(m) :
                  /\ m[i].socketId = socketId
                  /\ \A j \in 1..(i - 1) : m[j].socketId # socketId
       IN SubSeq(m, 1, k - 1) \o SubSeq(m, k + 1, Len(m))
  ELSE m

\* connectedUsers.teams[name].set(userId, userInfo), after a Map was made for
\* a name that has none; teams is a plain object, so a name of
\* Object.prototype finds a value that has no set()
TeamsSet(teams, name, info) ==
  IF \E i \in 1..Len(teams) : teams[i].name = name
  THEN [teams |-> [i \in 1..Len(teams) |->
                     IF teams[i].name = name
                     THEN [teams[i] EXCEPT !.users = MapSet(@, info)] ELSE teams[i]],
        threw |-> FALSE]
  ELSE IF name \in ObjectPrototypeKeys
  THEN [teams |-> teams, threw |-> TRUE]
  ELSE [teams |-> Append(teams, [name |-> name, users |-> <<info>>]), threw |-> FALSE]

\* the loop over the teams that runs when no dispatcher entry was removed: the
\* first entry of the socket in the first team that has one is deleted
DisconnectTeams(teams, socketId) ==
  IF \E i \in 1..Len(teams) : teams[i].users # DeleteFirstOf(teams[i].users, socketId)
  THEN LET k == CHOOSE i \in 1..Len(teams) :
                  /\ teams[i].users # DeleteFirstOf(teams[i].users, socketId)
                  /\ \A j \in 1..(i - 1) :
                       teams[j].users = DeleteFirstOf(teams[j].users, socketId)
       IN [teams EXCEPT ![k].users = DeleteFirstOf(@, socketId)]
  ELSE teams

\* The lists of this server's snapshot.  As above an entry keeps the socket id
\* of the value it was mapped from (sid).
emitConnectedUsers(pr, rm, cs) ==
  LET dispatchersList ==
        {[userId |-> pr.dispatchers[i].userId, sid |-> pr.dispatchers[i].socketId] :
           i \in 1..Len(pr.dispatchers)}
      teamUsers(t) ==
        {[userId |-> t.users[i].userId, team |-> t.name, sid |-> t.users[i].socketId] :
           i \in 1..Len(t.users)}
      teamLists == [i \in 1..Len(pr.teams) |-> teamUsers(pr.teams[i])]
  IN <<EmitRoom(rm, cs, S_dispatchers, "connected-users",
         [dispatchers |-> dispatchersList,
          teamMembers |-> UNION {teamLists[i] : i \in 1..Len(pr.teams)},
          teams |-> teamLists])>> \o
     [i \in 1..Len(pr.teams) |->
        EmitRoom(rm, cs, pr.teams[i].name, "connected-users",
          [dispatchers |-> dispatchersList, teamMembers |-> teamLists[i]])]

\* io.on('connection') of this server: it installs the handlers
UidConnect(c) ==
  /\ ~crashed
  /\ connState[c] = "fresh"
  /\ c = NextSocket
  /\ handled' = Handled("connection", c, NoUserData)
  /\ connState' = [connState EXCEPT ![c] = "open"]
  /\ outbox' = <<>>
  /\ UNCHANGED <<connectedUsers, teamMembers, rooms, timers, crashed, pvars, uvars>>

\* socket.on('register') of this server
UidRegister(c, u) ==
  /\ ~crashed
  /\ connState[c] = "open"
  /\ handled' = Handled("register", c, u)
  /\ UNCHANGED pvars
  /\ IF ~u.defined
     THEN Crash(<<>>) /\ presence' = NoPresence      \* destructuring undefined
     ELSE LET info == UidUserInfo(c, u)
              admin == u.role = S_admin
              dispatchers1 == IF admin THEN MapSet(presence.dispatchers, info)
                              ELSE presence.dispatchers
              joined1 == rooms[c] \cup {S_all_teams} \cup
                         (IF admin
                          THEN {S_dispatchers} \cup {TeamRooms[i] : i \in 1..Len(TeamRooms)}
                          ELSE {})
              res == IF Truthy(u.team)
                     THEN TeamsSet(presence.teams, Normalize(u.team), info)
                     ELSE [teams |-> presence.teams, threw |-> FALSE]
              joined2 == IF Truthy(u.team) THEN joined1 \cup {Normalize(u.team)} ELSE joined1
              pr1 == [dispatchers |-> dispatchers1, teams |-> res.teams]
              rm1 == [rooms EXCEPT ![c] = joined2]
          IN IF res.threw
             THEN Crash(<<>>) /\ presence' = NoPresence
             ELSE /\ presence' = pr1
                  /\ rooms' = rm1
                  /\ outbox' = <<EmitSocket(c, "registered", [success |-> TRUE])>>
                                \o emitConnectedUsers(pr1, rm1, connState)
                  /\ UNCHANGED <<connState, connectedUsers, teamMembers, timers, crashed>>

\* socket.on('disconnect') of this server; the transport has taken the socket
\* out of its rooms before the listener runs
UidDisconnect(c) ==
  /\ ~crashed
  /\ connState[c] = "open"
  /\ handled' = Handled("disconnect", c, NoUserData)
  /\ UNCHANGED pvars
  /\ LET cs1 == [connState EXCEPT ![c] = "closed"]
         rm1 == [rooms EXCEPT ![c] = {}]
         userRemoved == \E i \in 1..Len(presence.dispatchers) :
                          presence.dispatchers[i].socketId = c
         pr1 == IF userRemoved
                THEN [presence EXCEPT !.dispatchers = DeleteFirstOf(@, c)]
                ELSE [presence EXCEPT !.teams = DisconnectTeams(@, c)]
     IN /\ connState' = cs1
        /\ rooms' = rm1
        /\ presence' = pr1
        /\ outbox' = emitConnectedUsers(pr1, rm1, cs1)
        /\ UNCHANGED <<connectedUsers, teamMembers, timers, crashed>>

\* ------------------------------------------------------------------ inputs
Identities ==
  { UserData(Undefined, S_dispatcher, Undefined, Undefined),
    UserData(Undefined, Undefined, S_box, Undefined),
    UserData(S_u1, S_admin, S_GlassSp, Undefined),
    UserData(Undefined, Undefined, S_dispatchers, Undefined),
    UserData(Undefined, Undefined, S_caps, S_SpBox),
    UserData(Undefined, Undefined, S_constructor, Undefined),
    NoUserData }

Handshakes ==
  { UserData(Undefined, Undefined, Undefined, Undefined),
    UserData(S_u1, S_admin, S_GlassSp, Undefined),
    UserData(Undefined, S_dispatcher, Undefined, Undefined) }

\* the identities and handshakes of the router's specification
RouterIdentities ==
  { UserData(Undefined, S_dispatcher, Undefined, Undefined),
    UserData(Undefined, Undefined, S_box, Undefined),
    UserData(S_u1, S_admin, S_box, Undefined) }

RouterHandshakes == { UserData(Undefined, Undefined, Undefined, Undefined) }

BoxesOnly == Details(0, 0, 1, 0)
CapsOnly == Details(0, 1, 0, 0)
NoItems == Details(0, 0, 0, 0)
GlassAndPumps == Details(1, 0, 0, 1)

Datas ==
  { NoData,
    Data(NoOrder, NoTeamTypes),
    Data(Order(FALSE, BoxesOnly), NoTeamTypes),
    Data(Order(TRUE, BoxesOnly), NoTeamTypes),
    Data(Order(TRUE, CapsOnly), NoTeamTypes),
    Data(Order(TRUE, NoItems), TeamTypes(<<>>)),
    Data(Order(TRUE, GlassAndPumps), TeamTypes(<<S_SpBox, S_dispatchers>>)),
    Data(Order(TRUE, BoxesOnly), TeamTypes(<<S_glass, NotAString>>)) }

\* what clients of the user-id-keyed server register with
UidIdentities ==
  { UserData(S_u1, S_admin, S_GlassSp, Undefined),
    UserData(S_u1, Undefined, S_caps, Undefined),
    UserData(S_u2, Undefined, S_glass, Undefined),
    UserData(S_u2, S_dispatcher, S_box, Undefined),
    NoUserData }

\* the request bodies of updateOrderProgress
One(item_id, qty_completed) == Updates(<<Update(item_id, qty_completed)>>)

Two(item_a, qty_a, item_b, qty_b) == Updates(<<Update(item_a, qty_a), Update(item_b, qty_b)>>)

Three(item_a, qty_a, item_b, qty_b, item_c, qty_c) ==
  Updates(<<Update(item_a, qty_a), Update(item_b, qty_b), Update(item_c, qty_c)>>)

Bodies ==
  { Body(S_o1, S_glass, One(S_i1, Num(q))) : q \in (-1)..(MaxQty + 1) } \cup
  { Body(S_o1, S_glass, One(S_i1, Str(1))),
    Body(S_o1, S_glass, Two(S_i1, Num(1), S_i1, Num(MaxQty - 1))),
    Body(S_o1, S_glass, Two(S_i1, Num(1), S_i1, Num(MaxQty))),
    Body(S_o1, S_glass, Two(S_i9, Num(1), S_i1, Num(1))),
    Body(S_o1, S_glass, Three(S_i1, Num(1), S_i9, Num(1), S_i1, Num(1))),
    Body(S_o1, S_glass, One(S_i2, Num(1))),
    Body(S_o1, S_boxes, One(S_i2, Num(1))),
    Body(S_o1, S_boxes, One(S_i2, Num(MaxQty))),
    Body(S_o1, S_box, One(S_i2, Num(1))),
    Body(S_o2, S_glass, One(S_i1, Num(1))),
    Body(Undefined, S_glass, One(S_i1, Num(1))),
    Body(S_o1, S_glass, NoUpdates),
    Body(S_o1, S_glass, NotAnArray) }

\* the bodies of the two interleaved callers
RaceBodies ==
  { Body(S_o1, S_glass, One(S_i1, Num(1))),
    Body(S_o1, S_glass, One(S_i1, Num(MaxQty))),
    Body(S_o1, S_glass, One(S_i1, Num(MaxQty + 1))),
    Body(S_o1, S_glass, One(S_i1, Str(1))),
    Body(S_o1, S_boxes, One(S_i2, Num(MaxQty))),
    Body(S_o1, S_box, One(S_i2, Num(1))),
    Body(S_o2, S_glass, One(S_i1, Num(1))) }

\* the stored order: one glass item and one box item, each as created (with
\* no team_tracking, or with the schema's defaults for its paths)
NewOrder(glassTracking, boxTracking) ==
  OrderDoc(S_o1, "Pending",
    [s \in Sections |->
       IF s = S_glass THEN <<Item(S_i1, MaxQty, glassTracking)>>
       ELSE IF s = S_boxes THEN <<Item(S_i2, MaxQty, boxTracking)>>
       ELSE <<>>])

\* ----------------------------------------------------------- specification
InitServer ==
  /\ connState = [c \in Conns |-> "fresh"]
  /\ connectedUsers = NoUsers
  /\ teamMembers = [g \in GroupKeys |-> {}]
  /\ rooms = [c \in Conns |-> {}]
  /\ timers = 0
  /\ crashed = FALSE
  /\ handled = Handled("none", 0, NoUserData)
  /\ outbox = <<>>
  /\ presence = NoPresence

InitStore ==
  /\ \E g \in {NoTracking, DefaultTracking}, b \in {NoTracking, DefaultTracking} :
       store = NewOrder(g, b)
  /\ inflight = [p \in Callers |-> Idle]
  /\ reply = Response(0, NoBody, NoOrderDoc, NoOrderDoc)
  /\ applied = [id \in {S_i1, S_i2} |-> 0]
  /\ calls = 0

Init ==
  /\ connState = [c \in Conns |-> "fresh"]
  /\ connectedUsers = NoUsers
  /\ teamMembers = [g \in GroupKeys |-> {}]
  /\ rooms = [c \in Conns |-> {}]
  /\ timers = 0
  /\ crashed = FALSE
  /\ handled = Handled("none", 0, NoUserData)
  /\ outbox = <<>>
  /\ presence = NoPresence
  /\ store = NewOrder(NoTracking, NoTracking)
  /\ inflight = [p \in Callers |-> Idle]
  /\ reply = Response(0, NoBody, NoOrderDoc, NoOrderDoc)
  /\ applied = [id \in {S_i1, S_i2} |-> 0]
  /\ calls = 0

DoConnect == \E q \in Handshakes : (\E c \in Conns : connState[c] = "fresh") /\ Connect(NextSocket, q)
DoRegister == \E c \in Conns, u \in Identities : Register(c, u)
DoDisconnect == \E c \in Conns : Disconnect(c)
DoTransportDies == \E c \in Conns : TransportDies(c)

Next ==
  \/ DoConnect
  \/ DoRegister
  \/ DoDisconnect
  \/ DoTransportDies
  \/ SweepStale

Spec == Init /\ [][Next]_vars


RouterConnect == \E q \in RouterHandshakes : (\E c \in Conns : connState[c] = "fresh") /\ Connect(NextSocket, q)
RouterRegister == \E c \in Conns, u \in RouterIdentities : Register(c, u)
DoCreateOrder == \E c \in Conns, d \in Datas : CreateOrder(c, d)
DoOrderUpdate == \E c \in Conns, d \in Datas : OrderUpdate(c, d)
DoEditOrder == \E c \in Conns, d \in Datas : EditOrder(c, d)
DoDeleteOrder == \E c \in Conns, d \in Datas : DeleteOrder(c, d)

NextRouter ==
  \/ RouterConnect
  \/ RouterRegister
  \/ DoDisconnect
  \/ DoCreateOrder
  \/ DoOrderUpdate
  \/ DoEditOrder
  \/ DoDeleteOrder

SpecRouter == Init /\ [][NextRouter]_vars

NextSweep ==
  \/ RouterConnect
  \/ RouterRegister
  \/ DoDisconnect
  \/ DoTransportDies
  \/ SweepStale

\* setInterval runs its callback again and again while the process lives
SpecSweep == Init /\ [][NextSweep]_vars /\ WF_vars(SweepStale)

InitProgress == InitServer /\ InitStore

DoApplyProgress == \E b \in Bodies : ApplyProgress(b)

NextProgress == DoApplyProgress

SpecProgress == InitProgress /\ [][NextProgress]_vars

DoFetch == \E p \in Callers, b \in RaceBodies : Fetch(p, b)
DoFold == \E p \in Callers : Fold(p)
DoSave == \E p \in Callers : Save(p)

NextRace ==
  \/ DoFetch
  \/ DoFold
  \/ DoSave

SpecRace == InitProgress /\ [][NextRace]_vars

NextUid ==
  \/ \E c \in Conns : UidConnect(c)
  \/ \E c \in Conns, u \in UidIdentities : UidRegister(c, u)
  \/ \E c \in Conns : UidDisconnect(c)

SpecUid == Init /\ [][NextUid]_vars

\* ============================================================== properties
\* the groups whose set in the table holds socket c
TableGroups(c) == {g \in GroupKeys : c \in teamMembers[g]}

Privileged(role) == role = S_admin \/ role = S_dispatcher

\* the groups a stored identity names: dispatchers through the role, and the
\* keys of the table that its team and teamType spell
IdentityGroups(info) ==
  {g \in GroupKeys : \/ g = S_dispatchers /\ Privileged(info.role)
                     \/ g = info.team
                     \/ g = info.teamType}

Emitted == {outbox[i] : i \in 1..Len(outbox)}

\* C1: at every moment, and so after any number of re-registrations, the table
\* holds a registered connection in exactly the groups its current identity
\* (role, team, teamType) names, and in none that only an earlier identity named.
C1_TableFollowsCurrentIdentity ==
  \A c \in DOMAIN connectedUsers : TableGroups(c) = IdentityGroups(connectedUsers[c])

\* a connection that registered in box before (it joined that room) and has now
\* registered as admin of team glass
C1_Witness ==
  /\ handled.name = "register"
  /\ handled.socket \in DOMAIN connectedUsers
  /\ S_box \in rooms[handled.socket]
  /\ connectedUsers[handled.socket].team = S_glass
  /\ TableGroups(handled.socket) = {S_dispatchers, S_glass}

\* C2: an emission addressed to a group reaches exactly the open connections
\* that the table currently holds in that group.
C2_EmissionReachesExactlyMembers ==
  ~crashed =>
    \A e \in Emitted :
      e.room \in GroupKeys =>
        {c \in e.to : connState[c] = "open"}
          = {c \in teamMembers[e.room] : connState[c] = "open"}

\* C3: a session is in the dispatchers set of the table if and only if its role
\* is admin or dispatcher.
C3_DispatchersIffRole ==
  \A c \in DOMAIN connectedUsers :
    c \in teamMembers[S_dispatchers] <=> Privileged(connectedUsers[c].role)

\* C4: after register with team t and teamType tt the connection is in the set
\* of a team group exactly when t or tt, lowercased and trimmed, is that
\* group's name; "Glass " gives glass, a name that is no group gives none.
C4_TeamMembershipAfterRegister ==
  (handled.name = "register" /\ handled.data.defined /\ ~crashed) =>
    LET c == handled.socket
        u == handled.data
    IN /\ \A g \in TeamKeys :
            c \in teamMembers[g] <=> (Normalize(u.team) = g \/ Normalize(u.teamType) = g)
       /\ u.team = S_GlassSp => c \in teamMembers[S_glass]
       /\ (u.team = S_caps /\ u.teamType = Undefined) =>
            \A g \in TeamKeys : c \notin teamMembers[g]

C4_Witness ==
  /\ handled.name = "register"
  /\ ~crashed
  /\ handled.data.team = S_GlassSp
  /\ handled.socket \in teamMembers[S_glass]

\* the sockets a presence payload lists
Listed(e) ==
  {x.sid : x \in e.payload.dispatchers} \cup {x.sid : x \in e.payload.teamMembers}
  \cup (IF e.room = S_dispatchers
        THEN UNION {{x.sid : x \in e.payload.teams[t]} : t \in TeamKeys}
        ELSE {})

\* C5: a disconnected connection has no session, is in no set of the table and
\* is listed in no presence snapshot.
C5_DisconnectedIsGone ==
  \A c \in Conns :
    connState[c] = "closed" =>
      /\ c \notin DOMAIN connectedUsers
      /\ \A g \in GroupKeys : c \notin teamMembers[g]
      /\ \A e \in Emitted : e.event = "connected-users" => c \notin Listed(e)

\* a disconnect whose snapshot is delivered to a connection that stays
C5_Witness ==
  /\ handled.name = "disconnect"
  /\ connState[handled.socket] = "closed"
  /\ \E e \in Emitted : e.event = "connected-users" /\ e.to # {} /\ Listed(e) # {}

\* ---- the router
LifecycleEvents == {"create-order", "order-update", "edit-order", "delete-order"}

\* the event a lifecycle event is broadcast as
BroadcastName(name) ==
  CASE name = "create-order" -> "new-order"
    [] name = "order-update" -> "order-updated"
    [] name = "edit-order" -> "order-edited"
    [] name = "delete-order" -> "order-deleted"

ConfirmedName(name) ==
  CASE name = "create-order" -> "order-create-confirmed"
    [] name = "delete-order" -> "order-delete-confirmed"

ErrorName(name) ==
  CASE name = "create-order" -> "order-create-error"
    [] name = "delete-order" -> "order-delete-error"

\* a data object with an order body (and an id, for a deletion) whose
\* teamTypes, when given, is an array of strings
WellFormed(name, d) ==
  /\ d.defined
  /\ d.order.defined
  /\ name = "delete-order" => d.order._id
  /\ \A i \in 1..Len(d.teamTypes.items) : IsString(d.teamTypes.items[i])

\* the emissions of the most recent step that went to a room of the table
ToGroups == {e \in Emitted : e.room \in GroupKeys \/ e.room = S_unassigned}

\* what the most recent step sent to the socket alone
SentTo(c) == {e \in Emitted : e.room = SocketId(c)}

\* C6: every lifecycle event with a well-formed payload is broadcast to the
\* room dispatchers, whatever the resolved teams are and whoever is in them.
C6_DispatchersAlwaysAddressed ==
  (handled.name \in LifecycleEvents /\ WellFormed(handled.name, handled.data)) =>
    \E e \in Emitted : e.room = S_dispatchers /\ e.event = BroadcastName(handled.name)

\* the resolved teams leave dispatchers out and no socket is in any room
C6_Witness ==
  /\ handled.name = "delete-order"
  /\ WellFormed(handled.name, handled.data)
  /\ ~handled.data.teamTypes.defined
  /\ \A e \in Emitted : e.event = "order-deleted" => e.to = {}
  /\ \E e \in Emitted : e.event = "order-deleted" /\ e.room = S_dispatchers
  /\ \E e \in Emitted : e.event = "order-deleted" /\ e.room = S_box

\* the groups of the sections of an order that hold an item
NonEmptySectionGroups(details) ==
  {g \in TeamKeys : \/ g = S_glass /\ details.glass > 0
                    \/ g = S_cap /\ details.caps > 0
                    \/ g = S_box /\ details.boxes > 0
                    \/ g = S_pump /\ details.pumps > 0}

C7_WitnessCaps ==
  /\ handled.name = "create-order"
  /\ handled.data.order.order_details = CapsOnly
  /\ \E e \in SentTo(handled.socket) : e.payload.targetTeams = <<S_cap>>

C7_WitnessUnassigned ==
  /\ handled.name = "create-order"
  /\ handled.data.order.defined
  /\ handled.data.order.order_details = NoItems
  /\ \E e \in SentTo(handled.socket) : e.payload.targetTeams = <<S_unassigned>>

C8_InvalidOrderOnlyError ==
  (/\ handled.name \in {"create-order", "delete-order"}
   /\ handled.data.defined
   /\ \/ ~handled.data.order.defined
      \/ handled.name = "delete-order" /\ ~handled.data.order._id) =>
    /\ Len(outbox) = 1
    /\ outbox[1].event = ErrorName(handled.name)
    /\ outbox[1].to = {handled.socket}
    /\ outbox[1].room = SocketId(handled.socket)
    /\ ~crashed

\* a deletion of an order that has a body and no id, with a member in its room
C8_Witness ==
  /\ handled.name = "delete-order"
  /\ handled.data.order.defined
  /\ ~handled.data.order._id
  /\ handled.data.order.order_details = BoxesOnly
  /\ \E c \in Conns : S_box \in rooms[c]
  /\ Len(outbox) = 1
  /\ outbox[1].event = "order-delete-error"

\* C9: whatever the payload of create-order or delete-order, the sender is sent
\* the -confirmed or the -error event.
C9_SenderAlwaysAnswered ==
  handled.name \in {"create-order", "delete-order"} =>
    \E e \in SentTo(handled.socket) :
      e.event \in {ConfirmedName(handled.name), ErrorName(handled.name)}

\* C10: A registered as dispatcher, B in team box, A sends create-order with no
\* teamTypes for an order whose only items are boxes: B is sent new-order and A
\* is sent order-create-confirmed with targetTeams = ["box"].
C10_Scenario(a, b) ==
  /\ handled.name = "create-order"
  /\ handled.socket = a
  /\ a \in DOMAIN connectedUsers
  /\ connectedUsers[a].role = S_dispatcher
  /\ b \in DOMAIN connectedUsers
  /\ connectedUsers[b].team = S_box
  /\ connState[b] = "open"
  /\ handled.data.defined
  /\ handled.data.order.defined
  /\ ~handled.data.teamTypes.defined
  /\ handled.data.order.order_details = BoxesOnly

C10_Outcome(a, b) ==
  /\ \E e \in Emitted : e.event = "new-order" /\ b \in e.to
  /\ \E e \in SentTo(a) :
       e.event = "order-create-confirmed" /\ e.payload.targetTeams = <<S_box>>

C10_EndToEnd ==
  \A a, b \in Conns : C10_Scenario(a, b) => C10_Outcome(a, b)

C10_Witness ==
  \E a, b \in Conns : a # b /\ C10_Scenario(a, b) /\ C10_Outcome(a, b)

\* ---- order progress
\* the items of a document, of every section
Items(order) ==
  UNION {{order.order_details[s][i] : i \in 1..Len(order.order_details[s])} : s \in Sections}

\* the item of a document that has the id
ItemOf(order, id) == CHOOSE it \in Items(order) : it._id = id

\* every item has team_tracking.status Completed or no team_tracking
AllCompletedOrUntracked(order) ==
  \A it \in Items(order) :
    ~it.team_tracking.defined \/ it.team_tracking.status = "Completed"

\* C11: after a call answered with success, whatever calls came before it, the
\* stored order_status is Completed exactly when every item of every section
\* has team_tracking.status Completed or no team_tracking; so an order does not
\* stay Completed when an update has left an item Pending.
C11_OrderStatusFollowsItems ==
  reply.code = 200 =>
    (store.order_status = "Completed" <=> AllCompletedOrUntracked(store))

\* C12: however the reads, folds and writes of two calls on the same order
\* interleave, for every item the qty_completed of the updates that were
\* applied by calls answered with success sum to at most its quantity, and the
\* stored total_completed_qty is at most its quantity.
C12_NoOverrunUnderInterleaving ==
  \A it \in Items(store) :
    /\ applied[it._id] <= it.quantity
    /\ it.team_tracking.defined => it.team_tracking.total_completed_qty <= it.quantity

\* C13: after calls run one after the other, with whatever qty_completed the
\* request validation lets through, every item that is tracked has
\* total_completed_qty at most its quantity.
C13_TotalWithinQuantity ==
  \A it \in Items(store) :
    it.team_tracking.defined => it.team_tracking.total_completed_qty <= it.quantity

RECURSIVE Sum(_)
\* the sum of a sequence of numbers
Sum(seq) == IF seq = <<>> THEN 0 ELSE Head(seq) + Sum(Tail(seq))

\* C14: whatever calls were made, every item that has team_tracking has
\* total_completed_qty equal to the sum of the qty_completed of its
\* completed_entries (each accepted update appends one entry with its
\* qty_completed and adds it to the total).
C14_TotalIsSumOfEntries ==
  \A it \in Items(store) :
    it.team_tracking.defined =>
      it.team_tracking.total_completed_qty = Sum(it.team_tracking.completed_entries)

\* the most recent call passed the request validation, found its order and
\* named a valid team type: its updates were folded
Folding ==
  /\ reply.code # 0
  /\ ~BadRequest(reply.body)
  /\ reply.before.defined
  /\ reply.body.order_number = reply.before.order_number
  /\ ValidTeamType(reply.body.team_type)

\* the items of the section the most recent call named, as the call read them
TeamItemsRead ==
  {reply.before.order_details[reply.body.team_type][i] :
     i \in 1..Len(reply.before.order_details[reply.body.team_type])}

\* total_completed_qty as the guard reads it
TotalOf(it) == IF it.team_tracking.defined THEN it.team_tracking.total_completed_qty ELSE 0

\* C15: whatever calls were made, a tracked item has status Completed exactly
\* when its total_completed_qty has reached its quantity; an item with no
\* tracking that is given its whole quantity in one update becomes Completed
\* with that total; and a call turns an item from Pending to Completed only
\* when it takes a total below the quantity to the quantity or above.
C15_StatusFollowsTotal ==
  /\ \A it \in Items(store) :
       it.team_tracking.defined =>
         (it.team_tracking.status = "Completed"
            <=> it.team_tracking.total_completed_qty >= it.quantity)
  /\ (Folding /\ reply.code = 200) =>
       \A it \in TeamItemsRead :
         /\ (/\ ~it.team_tracking.defined
             /\ reply.body.updates.items = <<Update(it._id, Num(it.quantity))>>)
            => ItemOf(store, it._id).team_tracking
                 = Tracking(it.quantity, <<it.quantity>>, "Completed")
         /\ (/\ it.team_tracking.status = "Pending"
             /\ ItemOf(store, it._id).team_tracking.status = "Completed")
            => /\ TotalOf(it) < it.quantity
               /\ TotalOf(ItemOf(store, it._id)) >= it.quantity

\* a second batch took a Pending item with progress to exactly its quantity
C15_Witness ==
  /\ Folding
  /\ reply.code = 200
  /\ \E it \in TeamItemsRead :
       /\ it.team_tracking.status = "Pending"
       /\ TotalOf(it) > 0
       /\ ItemOf(store, it._id).team_tracking.status = "Completed"
       /\ TotalOf(ItemOf(store, it._id)) = it.quantity
       /\ Len(ItemOf(store, it._id).team_tracking.completed_entries) >= 2

\* C16: a call whose update asks for more than quantity minus the item's
\* current total_completed_qty fails (status 500, the quantity-exceeded error),
\* and the stored item is as before: no entry appended, total and status
\* unchanged.
C16_ExceedingUpdateFails ==
  Folding =>
    \A it \in TeamItemsRead :
      (\E i \in 1..Len(reply.body.updates.items) :
         /\ reply.body.updates.items[i].item_id = it._id
         /\ \A j \in 1..(i - 1) : reply.body.updates.items[j].item_id # it._id
         /\ ToNumber(reply.body.updates.items[i].qty_completed)
              > it.quantity - TotalOf(it))
      => /\ reply.code = 500
         /\ store = reply.before
         /\ ItemOf(store, it._id) = it

\* the second update of a batch exceeded what the first had left: the call
\* failed and the progress stored before it is untouched
C16_Witness ==
  /\ Folding
  /\ reply.code = 500
  /\ Len(reply.body.updates.items) = 2
  /\ store = reply.before
  /\ reply.order # store
  /\ \E it \in Items(store) : TotalOf(it) > 0

\* ---- presence snapshots
\* C17: a presence snapshot that reaches an open connection whose membership
\* in the table is exactly one team group lists members of that group only
\* (and the dispatchers), and the cross-team snapshot, the one emitted to
\* dispatchers, reaches only connections the table holds in dispatchers;
\* after any registrations, re-registrations and disconnects.
C17_TeamsSeeOnlyTheirOwn ==
  \A e \in Emitted :
    e.event = "connected-users" =>
      \A c \in e.to :
        connState[c] = "open" =>
          /\ \A g \in TeamKeys :
               TableGroups(c) = {g} => \A m \in e.payload.teamMembers : m.team = g
          /\ e.room = S_dispatchers => c \in teamMembers[S_dispatchers]

\* ---- the sweep
\* C18: a run of the sweep leaves no session whose transport is gone in the
\* registry or in any group of the table, which is what Disconnect leaves of
\* it, and emits the presence snapshot of the registry and table as they are
\* after the removal; and since the timer keeps firing, every registered
\* session whose transport died is eventually out of the registry and of
\* every group.
C18_SweepEvictsDead ==
  /\ [](handled.name = "sweep" =>
         /\ \A c \in Conns :
              connState[c] # "open" => c \notin DOMAIN connectedUsers /\ TableGroups(c) = {}
         /\ outbox = broadcastConnectedUsers(teamMembers, connectedUsers, rooms, connState))
  /\ \A c \in Conns :
       (connState[c] = "dead" /\ c \in DOMAIN connectedUsers)
         ~> (c \notin DOMAIN connectedUsers /\ TableGroups(c) = {})

\* the sweep has just evicted a session that no disconnect event was delivered
\* for, and an open member of its group was sent the snapshot without it
C18_Witness ==
  /\ handled.name = "sweep"
  /\ \E c \in Conns :
       /\ connState[c] = "dead"
       /\ c \notin DOMAIN connectedUsers
       /\ \E g \in rooms[c] \cap TeamKeys :
            \E e \in Emitted : e.room = g /\ \E d \in e.to : connState[d] = "open"

\* ---- failures and fallbacks of the router
\* the most recent event was an order lifecycle event whose handler fails: no
\* data object, or order-update / edit-order with no order body
FailingEvent ==
  \/ handled.name \in LifecycleEvents /\ ~handled.data.defined
  \/ handled.name \in {"order-update", "edit-order"} /\ ~handled.data.order.defined

\* C19: a lifecycle event whose handler fails leaves the server up: the
\* process has not ended and the sender's connection is still open, so that
\* further events are handled.
C19_HandlerFailureContained ==
  FailingEvent =>
    /\ ~crashed
    /\ connState[handled.socket] = "open"

\* the emissions of the most recent lifecycle event under its broadcast name,
\* in order; the last of them is the one made to dispatchers in any case
Broadcasts == SelectSeq(outbox, LAMBDA e : e.event = BroadcastName(handled.name))

\* the groups the most recent lifecycle event resolved to
ResolvedGroups == {Broadcasts[i].room : i \in 1..(Len(Broadcasts) - 1)}

\* C20: every lifecycle event with a well-formed payload resolves to at least
\* one group, and to unassigned alone when no groups are given and no section
\* of the order holds an item; for create, update, edit and delete alike.
C20_NeverEmptyTargets ==
  (handled.name \in LifecycleEvents /\ WellFormed(handled.name, handled.data)) =>
    /\ ResolvedGroups # {}
    /\ (/\ Len(TeamTypesOrEmpty(handled.data)) = 0
        /\ NonEmptySectionGroups(handled.data.order.order_details) = {})
       => ResolvedGroups = {S_unassigned}

\* C21: create-order with a non-empty teamTypes list of names is emitted to
\* the lowercased, trimmed entries of that list, in order, and then to
\* dispatchers, and to no other room; the targetTeams of the confirmation and
\* of the broadcast payload is that normalized list; no group of a non-empty
\* section of the order is addressed unless the list names it.
C21_ExplicitTeamsVerbatim ==
  (/\ handled.name = "create-order"
   /\ WellFormed(handled.name, handled.data)
   /\ Len(TeamTypesOrEmpty(handled.data)) # 0) =>
    LET given == handled.data.teamTypes.items
        normalized == [i \in 1..Len(given) |-> Normalize(given[i])]
        named == {normalized[i] : i \in 1..Len(normalized)}
    IN /\ [i \in 1..Len(Broadcasts) |-> Broadcasts[i].room] = normalized \o <<S_dispatchers>>
       /\ Len(outbox) = Len(Broadcasts) + 1
       /\ \A i \in 1..Len(Broadcasts) : Broadcasts[i].payload._meta.targetTeams = normalized
       /\ \E e \in SentTo(handled.socket) :
            e.event = "order-create-confirmed" /\ e.payload.targetTeams = normalized
       /\ \A g \in NonEmptySectionGroups(handled.data.order.order_details) \ named :
            \A e \in Emitted : e.room # g

\* an order with glass and pumps items created for [" Box", "dispatchers"]: a
\* member of box is sent it, and nothing is emitted to glass or pump
C21_Witness ==
  /\ handled.name = "create-order"
  /\ handled.data.defined
  /\ handled.data.order.order_details = GlassAndPumps
  /\ handled.data.teamTypes.items = <<S_SpBox, S_dispatchers>>
  /\ \E e \in Emitted : e.event = "new-order" /\ e.room = S_box /\ e.to # {}
  /\ \A e \in Emitted : e.room \notin {S_glass, S_pump}
  /\ \E e \in SentTo(handled.socket) : e.payload.targetTeams = <<S_box, S_dispatchers>>

\* ---- connecting with claims
\* the groups of the table, of an empty table, that Register puts a fresh
\* connection c in for the claims u
RegisteredGroups(c, u, userId) ==
  LET res == addUserToTeams([g \in GroupKeys |-> {}], {}, c, UserInfo(c, userId, u))
  IN {g \in GroupKeys : c \in res.tm[g]}

\* C22: a connection opened with claims in its handshake of which role or
\* team is present has, once the connection handler has run, the session
\* record and the group memberships that Register with the same claims gives a
\* fresh connection: the record with userId or else the socket id, the
\* normalized team and teamType, and the groups the claims name.
C22_ConnectAsRegister ==
  (/\ handled.name = "connection"
   /\ ~crashed
   /\ Truthy(handled.data.role) \/ Truthy(handled.data.team)) =>
    LET c == handled.socket
        u == handled.data
        uniqueId == IF Truthy(u.userId) THEN u.userId ELSE SocketId(c)
    IN /\ c \in DOMAIN connectedUsers
       /\ connectedUsers[c] = UserInfo(c, uniqueId, u)
       /\ TableGroups(c) = RegisteredGroups(c, u, uniqueId)
       /\ rooms[c] = RegisteredGroups(c, u, uniqueId)

\* ---- batches
\* the updates of the most recent call that name an item of the section it read
KnownUpdates ==
  SelectSeq(reply.body.updates.items, LAMBDA u : \E it \in TeamItemsRead : it._id = u.item_id)

\* the most recent call folded a batch that names an item its section has not
SkippingCall == Folding /\ Len(KnownUpdates) < Len(reply.body.updates.items)

\* what the call would have done with the updates that name an item alone
WithoutUnknown == Folded(reply.before, [reply.body EXCEPT !.updates.items = KnownUpdates])

\* C23: an update that names no item of the team's section is skipped and does
\* not fail the call: the call ends as it would for the other updates of the
\* batch alone, and when those are accepted it answers success, the document
\* it folded is the stored one, and every item has been given the
\* qty_completed of all the updates that name it, those before the skipped
\* update and those after it, one entry for each.
C23_UnknownItemSkipped ==
  SkippingCall =>
    /\ reply.code = (IF WithoutUnknown.threw THEN 500 ELSE 200)
    /\ ~WithoutUnknown.threw =>
         /\ store = WithoutUnknown.order
         /\ reply.order = store
         /\ (\A i \in 1..Len(KnownUpdates) : ~KnownUpdates[i].qty_completed.str) =>
              \A it \in TeamItemsRead :
                LET now == ItemOf(store, it._id)
                    named == SelectSeq(KnownUpdates, LAMBDA u : u.item_id = it._id)
                IN /\ TotalOf(now) = TotalOf(it) + QtyFor(KnownUpdates, it._id, 1)
                   /\ named # <<>> =>
                        now.team_tracking.completed_entries
                          = it.team_tracking.completed_entries
                              \o [i \in 1..Len(named) |-> ToNumber(named[i].qty_completed)]

\* a batch of three whose second update names no item: the first and the
\* third were applied to the item and stored, and the call answered success
C23_Witness ==
  /\ SkippingCall
  /\ reply.code = 200
  /\ Len(reply.body.updates.items) = 3
  /\ \E it \in TeamItemsRead :
       /\ TotalOf(ItemOf(store, it._id)) = TotalOf(it) + 2
       /\ Len(ItemOf(store, it._id).team_tracking.completed_entries)
            = Len(it.team_tracking.completed_entries) + 2

\* the items of the section the most recent call named after the first k of
\* its updates, and whether one of them threw
AfterFirst(k) ==
  ForEach([items |-> reply.before.order_details[reply.body.team_type], threw |-> FALSE],
          SubSeq(reply.body.updates.items, 1, k), 1)

\* the updates of the most recent call that threw: the k-th, after k - 1 that
\* did not
FailedAt == {k \in 1..Len(reply.body.updates.items) : AfterFirst(k).threw /\ ~AfterFirst(k - 1).threw}

\* C24: a call that has failed because its k-th update exceeded what was left
\* of its item leaves the stored order exactly as it was before the call; the
\* k - 1 updates before it were applied to the document the call held in
\* memory, which is not the stored one, and its order_status was not touched.
C24_FailedBatchPersistsNothing ==
  (Folding /\ reply.code = 500) =>
    /\ store = reply.before
    /\ \E k \in FailedAt :
         /\ reply.order.order_details[reply.body.team_type] = AfterFirst(k - 1).items
         /\ \A s \in Sections \ {reply.body.team_type} :
              reply.order.order_details[s] = store.order_details[s]
    /\ reply.order.order_status = store.order_status

\* the second update of a batch threw after the first had added its
\* qty_completed to the item in memory; the stored item has not got it
C24_Witness ==
  /\ Folding
  /\ reply.code = 500
  /\ FailedAt = {2}
  /\ store = reply.before
  /\ \E it \in Items(store) :
       TotalOf(ItemOf(reply.order, it._id)) = TotalOf(it) + 1

\* ---- interleaved calls of different teams
\* every caller has been answered
AllReturned == \A p \in Callers : inflight[p].pc = "idle"

\* every item of the stored order has team_tracking.status Completed
AllItemsCompleted ==
  \A it \in Items(store) : it.team_tracking.defined /\ it.team_tracking.status = "Completed"

Deliveries(c) == Cardinality({i \in 1..Len(Broadcasts) : c \in Broadcasts[i].to})

\* C26: one lifecycle event (create-order, order-update, edit-order or
\* delete-order) delivers its broadcast event to every connection at most
\* once, also to a connection that is in dispatchers and in a resolved team
\* group, or in two resolved groups, and when the resolved groups name
\* dispatchers.
C26_AtMostOneDelivery ==
  handled.name \in LifecycleEvents => \A c \in Conns : Deliveries(c) <= 1

\* ---- the table and the registry
\* C27: after any connects, registrations, disconnects and sweeps, every
\* connection that a set of the table (dispatchers, glass, cap, box, pump)
\* holds has a session in the registry: no membership outlives its session.
C27_MembersHaveSessions ==
  \A g \in GroupKeys : teamMembers[g] \subseteq DOMAIN connectedUsers

\* a sweep has taken a member whose transport died out of the registry and
\* out of its groups together, and another member, still connected, has kept
\* its session and its groups
C27_Witness ==
  /\ handled.name = "sweep"
  /\ \E c, d \in Conns :
       /\ connState[c] = "dead"
       /\ rooms[c] \cap GroupKeys # {}
       /\ c \notin DOMAIN connectedUsers
       /\ TableGroups(c) = {}
       /\ connState[d] = "open"
       /\ d \in DOMAIN connectedUsers
       /\ TableGroups(d) # {}

\* ---- the user-id-keyed server
\* the values of the presence tables, of dispatchers and of every team
PresenceEntries ==
  {presence.dispatchers[i] : i \in 1..Len(presence.dispatchers)} \cup
  UNION {{presence.teams[t].users[i] : i \in 1..Len(presence.teams[t].users)} :
           t \in 1..Len(presence.teams)}

\* the sockets a snapshot of this server lists
UidListed(e) ==
  {x.sid : x \in e.payload.dispatchers} \cup {x.sid : x \in e.payload.teamMembers}

\* C28: in the user-id-keyed server, once a connection has disconnected no
\* presence table, of dispatchers or of a team, holds an entry whose socketId
\* is that connection, and no snapshot emitted from then on lists it; also
\* for a connection that registered as admin with a team and for one that
\* registered under several teams one after the other.
C28_UidDisconnectedIsGone ==
  \A c \in Conns :
    connState[c] = "closed" =>
      /\ \A x \in PresenceEntries : x.socketId # c
      /\ \A e \in Emitted : e.event = "connected-users" => c \notin UidListed(e)

\* ---- the sweep timer
\* C29: at every moment at most one sweep timer is running, however many
\* connections have been opened or closed: opening a connection starts no
\* further timer and a closed connection leaves none behind.
C29_AtMostOneSweepTimer == timers <= 1
====
